---- MODULE Spec2Model ----
(***************************************************************************)
(* Model of the note service of main.go: a process that opens an SQLite    *)
(* file, makes sure the table "notes" exists and then serves five HTTP     *)
(* handlers, each of which issues one SQL statement through the            *)
(* package-level handle db.                                                *)
(*                                                                         *)
(* A handler is one action: the only shared state a handler touches is the *)
(* table, through a single statement that the storage engine executes      *)
(* atomically, so concurrently dispatched requests are the interleavings   *)
(* of these actions.  Completed requests are kept, with their responses,   *)
(* in the sequence responses.                                              *)
(***************************************************************************)
EXTENDS Integers, Sequences, FiniteSets

\* Number of requests served in a behaviour.
MaxReqs == 2
\* Largest row id the database file may already hold when the process starts.
MaxInitId == 2

VARIABLES
    pc,          \* position of main: "start", "listen", "serving", "fatal"
    db,          \* the package-level handle (var db *sql.DB): NilDB or OpenDB
    tableExists, \* whether the file ./notes.db holds the table notes
    notes,       \* the rows of the table notes: a set of Note records
    seq,         \* sqlite_sequence of notes: the largest id ever assigned
    now,         \* the clock read by time.Now()
    responses    \* completed requests with their responses, oldest first

vars == <<pc, db, tableExists, notes, seq, now, responses>>
store == <<tableExists, notes, seq>>

NilDB == "nil"
OpenDB == "open"

-----------------------------------------------------------------------------
\* Values

\* type Note struct {ID, Title, Content, CreatedAt}
Note(id, title, content, created_at) ==
    [id |-> id, title |-> title, content |-> content, created_at |-> created_at]

\* The zero value of Note (var note Note).
ZeroNote == Note(0, "", "", 0)

\* Request bodies.  kind "nonjson" is a body that is no JSON text, "badtype"
\* a JSON object whose title is not a string, "obj" a JSON object whose
\* fields fit Note; a field the object leaves out has its zero value.
Body(kind, id, title, content, created_at) ==
    [kind |-> kind, id |-> id, title |-> title, content |-> content,
     created_at |-> created_at]

Bodies ==
    { Body("nonjson", 0, "", "", 0),
      Body("badtype", 0, "", "c", 0),
      Body("obj", 0, "a", "x", 0),
      Body("obj", 9, "b", "y", 5) }

NoBodyReq == Body("none", 0, "", "", 0)

\* Values of the path parameter {id}.
IdParams == {"1", "2", "3", "x"}

\* Response bodies: kind is "none" (nothing written), "text" (http.Error's
\* plain text), "note" (one marshalled Note), "null" (the JSON null) or
\* "array" (a JSON array of Notes).
Out(kind, list) == [kind |-> kind, list |-> list]
NoOut == Out("none", <<>>)

\* Status recorded for a request whose handler panicked: net/http recovers
\* the panic and closes the connection without writing a response.
StatusPanic == 0

StatusOK == 200
StatusCreated == 201
StatusBadRequest == 400
StatusNotFound == 404
StatusInternalServerError == 500

-----------------------------------------------------------------------------
\* encoding/json and the path parameter

\* Decode as it would be with its error ignored: a body that does not
\* decode leaves the zero Note and the handler goes on.
DecodeErrorIgnored(body) ==
    [err |-> FALSE,
     note |-> IF body.kind = "obj"
              THEN Note(body.id, body.title, body.content, body.created_at)
              ELSE ZeroNote]

\* json.NewDecoder(r.Body).Decode(&note): an error for a body that is no
\* JSON or whose fields do not fit Note, else the Note the object gives.
Decode(body) ==
    IF body.kind = "obj"
    THEN [err |-> FALSE,
          note |-> Note(body.id, body.title, body.content, body.created_at)]
    ELSE [err |-> TRUE, note |-> ZeroNote]

\* The row id the text bound to "WHERE id=?" compares equal to: the column
\* is INTEGER, so a numeric text matches the row with that number and any
\* other text matches no row (0 is the id of no row).
IdOf(param) ==
    CASE param = "1" -> 1
      [] param = "2" -> 2
      [] param = "3" -> 3
      [] OTHER -> 0

-----------------------------------------------------------------------------
\* The SQL statements, on the rows t of the table

Ids(t) == {r.id : r \in t}

MaxOf(S) == IF S = {} THEN 0 ELSE CHOOSE m \in S : \A x \in S : x <= m

\* INSERT INTO notes (title, content, created_at) VALUES (?, ?, ?) with
\* id INTEGER PRIMARY KEY AUTOINCREMENT: the new id is one more than the
\* largest id the table ever held.
sqlInsert(t, s, title, content, created_at) ==
    LET id == MaxOf(Ids(t) \cup {s}) + 1
    IN  [rows |-> t \cup {Note(id, title, content, created_at)},
         seq |-> id, id |-> id]

\* UPDATE notes SET title=?, content=? WHERE id=?
sqlUpdate(t, k, title, content) ==
    { IF r.id = k THEN [r EXCEPT !.title = title, !.content = content] ELSE r
      : r \in t }

\* DELETE FROM notes WHERE id=?
sqlDelete(t, k) == {r \in t : r.id # k}

\* SELECT id, title, content, created_at FROM notes WHERE id=?
sqlSelectOne(t, k) == {r \in t : r.id = k}

\* SELECT id, title, content, created_at FROM notes: the rows in the order
\* of the table scan, which is the order of the ids.
RECURSIVE sqlSelectAll(_)
sqlSelectAll(t) ==
    IF t = {} THEN <<>>
    ELSE LET r == CHOOSE x \in t : \A y \in t : x.id <= y.id
         IN  <<r>> \o sqlSelectAll(t \ {r})

\* json.Marshal(notes) for the slice getNotes builds with "var notes []Note"
\* and append: a slice nothing was appended to is nil and marshals to null.
MarshalNotes(list) ==
    IF list = <<>> THEN Out("null", <<>>) ELSE Out("array", list)

-----------------------------------------------------------------------------
\* The process

\* The database file when the process starts: either it holds no table, or
\* the table an earlier run left (CREATE TABLE IF NOT EXISTS), with rows
\* whose ids are distinct and at most the sequence.
InitialFiles ==
    { [exists |-> FALSE, rows |-> {}, seq |-> 0] } \cup
    { [exists |-> TRUE,
       rows |-> {Note(i, "t0", "c0", 0) : i \in I},
       seq |-> s] :
      I \in SUBSET (1..MaxInitId), s \in 0..MaxInitId } 

Init ==
    /\ pc = "start"
    /\ db = NilDB
    /\ \E f \in {g \in InitialFiles : MaxOf(Ids(g.rows)) <= g.seq} :
         /\ tableExists = f.exists
         /\ notes = f.rows
         /\ seq = f.seq
    /\ now = 1
    /\ responses = <<>>

\* The package-level db after "db, err := sql.Open(...)" inside a function,
\* where global is its value before and opened the handle sql.Open returns:
\* ":=" declares a new db local to the function, and the package-level
\* variable keeps its value.
ShortVarDecl(global, opened) == global

\* func initialization(): opens the file and creates the table notes if the
\* file does not hold it, both through the handle of the short variable
\* declaration.  A failure to open the file or to create the table ends the
\* process (log.Fatal).
initialization ==
    /\ pc = "start"
    /\ \E ok \in BOOLEAN :
         IF ok
         THEN /\ db' = ShortVarDecl(db, OpenDB)
              /\ tableExists' = TRUE
              /\ pc' = "listen"
         ELSE /\ db' = db
              /\ tableExists' = tableExists
              /\ pc' = "fatal"
    /\ UNCHANGED <<notes, seq, now, responses>>

\* main after initialization(): the five routes are registered and
\* http.ListenAndServe serves them, or fails to bind and ends the process.
ListenAndServe ==
    /\ pc = "listen"
    /\ \E ok \in BOOLEAN : pc' = IF ok THEN "serving" ELSE "fatal"
    /\ UNCHANGED <<db, tableExists, notes, seq, now, responses>>

\* One request served: its response is recorded and time passes.
Respond(op, id, body, status, out) ==
    /\ responses' = Append(responses,
         [op |-> op, id |-> id, body |-> body, status |-> status, out |-> out])
    /\ now' = now + 1

Serving == pc = "serving" /\ Len(responses) < MaxReqs

\* A method of a nil *sql.DB dereferences it: the handler panics before
\* any statement reaches the file and before anything is written.
Panic(op, id, body) ==
    /\ Respond(op, id, body, StatusPanic, NoOut)
    /\ UNCHANGED <<notes, seq>>

\* http.Error(w, err.Error(), status) and http.NotFound(w, r): a plain text.
TextOut == Out("text", <<>>)

\* func createNote: POST /note
createNote(body) ==
    /\ Serving
    /\ LET d == Decode(body)
       IN  IF d.err
           THEN /\ Respond("createNote", "", body, StatusBadRequest, TextOut)
                /\ UNCHANGED <<notes, seq>>
           ELSE IF db = NilDB
           THEN Panic("createNote", "", body)
           ELSE IF ~tableExists
           THEN /\ Respond("createNote", "", body,
                           StatusInternalServerError, TextOut)
                /\ UNCHANGED <<notes, seq>>
           ELSE LET ins == sqlInsert(notes, seq, d.note.title, d.note.content, now)
                IN  /\ notes' = ins.rows
                    /\ seq' = ins.seq
                    /\ Respond("createNote", "", body, StatusCreated,
                         Out("note",
                             <<Note(ins.id, d.note.title, d.note.content, now)>>))
    /\ UNCHANGED <<pc, db, tableExists>>

\* func getNote: GET /note/{id}
getNote(id) ==
    /\ Serving
    /\ IF db = NilDB
       THEN Panic("getNote", id, NoBodyReq)
       ELSE /\ IF ~tableExists
               THEN Respond("getNote", id, NoBodyReq,
                            StatusInternalServerError, TextOut)
               ELSE LET found == sqlSelectOne(notes, IdOf(id))
                    IN  IF found = {}
                        THEN Respond("getNote", id, NoBodyReq,
                                     StatusNotFound, TextOut)
                        ELSE Respond("getNote", id, NoBodyReq, StatusOK,
                                     Out("note", <<CHOOSE r \in found : TRUE>>))
            /\ UNCHANGED <<notes, seq>>
    /\ UNCHANGED <<pc, db, tableExists>>

\* func getNotes: GET /notes
getNotes ==
    /\ Serving
    /\ IF db = NilDB
       THEN Panic("getNotes", "", NoBodyReq)
       ELSE /\ IF ~tableExists
               THEN Respond("getNotes", "", NoBodyReq,
                            StatusInternalServerError, TextOut)
               ELSE Respond("getNotes", "", NoBodyReq, StatusOK,
                            MarshalNotes(sqlSelectAll(notes)))
            /\ UNCHANGED <<notes, seq>>
    /\ UNCHANGED <<pc, db, tableExists>>

\* func updateNote: PATCH /note/{id}
updateNote(id, body) ==
    /\ Serving
    /\ LET d == Decode(body)
       IN  IF d.err
           THEN /\ Respond("updateNote", id, body, StatusBadRequest, TextOut)
                /\ UNCHANGED <<notes, seq>>
           ELSE IF db = NilDB
           THEN Panic("updateNote", id, body)
           ELSE IF ~tableExists
           THEN /\ Respond("updateNote", id, body,
                           StatusInternalServerError, TextOut)
                /\ UNCHANGED <<notes, seq>>
           ELSE /\ notes' = sqlUpdate(notes, IdOf(id), d.note.title, d.note.content)
                /\ seq' = seq
                /\ Respond("updateNote", id, body, StatusOK, NoOut)
    /\ UNCHANGED <<pc, db, tableExists>>

\* func deleteNote: DELETE /note/{id}
deleteNote(id) ==
    /\ Serving
    /\ IF db = NilDB
       THEN Panic("deleteNote", id, NoBodyReq)
       ELSE IF ~tableExists
       THEN /\ Respond("deleteNote", id, NoBodyReq,
                       StatusInternalServerError, TextOut)
            /\ UNCHANGED <<notes, seq>>
       ELSE /\ notes' = sqlDelete(notes, IdOf(id))
            /\ seq' = seq
            /\ Respond("deleteNote", id, NoBodyReq, StatusOK, NoOut)
    /\ UNCHANGED <<pc, db, tableExists>>

Next ==
    \/ initialization
    \/ ListenAndServe
    \/ \E body \in Bodies : createNote(body)
    \/ \E id \in IdParams : getNote(id)
    \/ getNotes
    \/ \E id \in IdParams, body \in Bodies : updateNote(id, body)
    \/ \E id \in IdParams : deleteNote(id)

Spec == Init /\ [][Next]_vars

-----------------------------------------------------------------------------
\* Properties

\* The request a step has just served, and whether the step served one.
Served == responses'[Len(responses')]
Step == Len(responses') = Len(responses) + 1
Decodable(body) == body.kind = "obj"
Malformed(body) == body.kind \in {"nonjson", "badtype"}
RowOf(t, k) == CHOOSE r \in t : r.id = k
Elems(list) == {list[i] : i \in 1..Len(list)}

\* C1: whenever the handlers are being served, the package-level handle is
\* an open connection and the table notes exists.
C1_HandleInitialized == pc = "serving" => (db = OpenDB /\ tableExists)

\* C2: every create with a decodable body answers 201 with a note of
\* positive id and the title and content sent, and a later get-one of that
\* id, with no update or delete of it in between, answers 200 with the same
\* id, title and content.
C2_CreateRoundTrip ==
    \A i \in 1..Len(responses) :
      LET r == responses[i]
      IN  (r.op = "createNote" /\ Decodable(r.body)) =>
            /\ r.status = StatusCreated
            /\ r.out.kind = "note"
            /\ r.out.list[1].id > 0
            /\ r.out.list[1].title = r.body.title
            /\ r.out.list[1].content = r.body.content
            /\ \A j \in (i+1)..Len(responses) :
                 LET g == responses[j]
                 IN  (/\ g.op = "getNote"
                      /\ IdOf(g.id) = r.out.list[1].id
                      /\ \A k \in (i+1)..(j-1) :
                           ~(/\ responses[k].op \in {"updateNote", "deleteNote"}
                             /\ IdOf(responses[k].id) = r.out.list[1].id))
                     => /\ g.status = StatusOK
                        /\ g.out.kind = "note"
                        /\ g.out.list[1].id = r.out.list[1].id
                        /\ g.out.list[1].title = r.body.title
                        /\ g.out.list[1].content = r.body.content

\* C3: an update of an existing note with a decodable body leaves the row
\* of that id with the title and content sent and the created_at it had,
\* and changes no other row and not the set of ids.
C3_UpdateFrame ==
    [][ (/\ Step
         /\ Served.op = "updateNote"
         /\ Decodable(Served.body)
         /\ IdOf(Served.id) \in Ids(notes))
        => LET k == IdOf(Served.id)
           IN  /\ sqlSelectOne(notes', k) =
                    {Note(k, Served.body.title, Served.body.content,
                          RowOf(notes, k).created_at)}
               /\ {r \in notes' : r.id # k} = {r \in notes : r.id # k}
               /\ Ids(notes') = Ids(notes) ]_vars

\* C4: a delete of an existing note answers 200 and removes the row, for
\* good (its id stays at or below the sequence, so no later create assigns
\* it), leaving every other row as it was; and a get-one of an id that has
\* no row answers 404.
C4_DeleteRemoves ==
    [][ /\ (/\ Step
            /\ Served.op = "deleteNote"
            /\ IdOf(Served.id) \in Ids(notes))
           => LET k == IdOf(Served.id)
              IN  /\ Served.status = StatusOK
                  /\ k \notin Ids(notes')
                  /\ k <= seq'
                  /\ notes' = {r \in notes : r.id # k}
        /\ (/\ Step
            /\ Served.op = "getNote"
            /\ IdOf(Served.id) \notin Ids(notes))
           => Served.status = StatusNotFound ]_vars

\* C5: get-all answers 200 with exactly the notes persisted.
C5_ListReflectsStore ==
    [][ (Step /\ Served.op = "getNotes")
        => /\ Served.status = StatusOK
           /\ Elems(Served.out.list) = notes
           /\ Len(Served.out.list) = Cardinality(notes) ]_vars

\* C6: get-all on an empty store answers 200 with an empty array, not null.
C6_EmptyListIsArray ==
    [][ (Step /\ Served.op = "getNotes" /\ notes = {})
        => /\ Served.status = StatusOK
           /\ Served.out = Out("array", <<>>) ]_vars

\* C7: a create or update whose body does not decode answers 400 and
\* leaves the table, every row of it and the sequence as they were.
C7_MalformedRejected ==
    [][ (/\ Step
         /\ Served.op \in {"createNote", "updateNote"}
         /\ Malformed(Served.body))
        => /\ Served.status = StatusBadRequest
           /\ UNCHANGED store ]_vars

\* C7 witness: a create and an update with malformed bodies were answered.
C7_Witness ==
    /\ \E i \in 1..Len(responses) :
         /\ responses[i].op = "createNote"
         /\ responses[i].body.kind = "nonjson"
         /\ responses[i].status = StatusBadRequest
    /\ \E i \in 1..Len(responses) :
         /\ responses[i].op = "updateNote"
         /\ responses[i].body.kind = "badtype"
         /\ responses[i].status = StatusBadRequest

\* C8: an update (with a decodable body) or a delete of an id that has no
\* row answers 200 and leaves the store as it was.
C8_MissingIdIsSuccess ==
    [][ (/\ Step
         /\ \/ Served.op = "updateNote" /\ Decodable(Served.body)
            \/ Served.op = "deleteNote"
         /\ IdOf(Served.id) \notin Ids(notes))
        => /\ Served.status = StatusOK
           /\ UNCHANGED store ]_vars

\* C9: no two rows share an id, and every create with a decodable body, in
\* whatever order the requests are served, answers 201 with an id above
\* every id assigned before and has its note persisted.
C9_IdsUniqueIncreasing ==
    [][ /\ Cardinality(Ids(notes')) = Cardinality(notes')
        /\ (Step /\ Served.op = "createNote" /\ Decodable(Served.body))
           => /\ Served.status = StatusCreated
              /\ Served.out.kind = "note"
              /\ Served.out.list[1].id > seq
              /\ Served.out.list[1].id \notin Ids(notes)
              /\ Served.out.list[1] \in notes'
              /\ notes \subseteq notes' ]_vars

\* C10: an update of an existing note answers 200 with a body that is the
\* updated note: the id of the path and the title and content sent.
C10_UpdateReturnsNote ==
    [][ (/\ Step
         /\ Served.op = "updateNote"
         /\ Decodable(Served.body)
         /\ IdOf(Served.id) \in Ids(notes))
        => /\ Served.status = StatusOK
           /\ Served.out.kind = "note"
           /\ Served.out.list[1].id = IdOf(Served.id)
           /\ Served.out.list[1].title = Served.body.title
           /\ Served.out.list[1].content = Served.body.content ]_vars

====
